---- MODULE Spec2Model ----
(***************************************************************************)
(* Function lowering of the ESTree IR generator                            *)
(* (lib/IRGen/ESTreeIRGen-func.cpp).                                       *)
(*                                                                         *)
(* The recursive descent of the generator is modelled with an explicit     *)
(* call stack of activation frames; every action is one segment of one of  *)
(* the source functions between two calls.  The input is a bounded AST of  *)
(* nested function nodes; the output is the list of IR functions with      *)
(* their parameters, variables and basic blocks.                           *)
(***************************************************************************)
EXTENDS Integers, Sequences, FiniteSets, TLC

\* Bounds of the explored inputs.
MaxNodes == 2
MaxParams == 3

\* uint32_t arithmetic of the parameter counter: a value is <<high, low>>,
\* two 16-bit halves.
HalfWord == 65536

VARIABLES
  ast,               \* the function nodes being lowered, with their semantic info
  phase,             \* "idle", "running", "done", "aborted"
  stack,             \* activation frames of the generator's own functions
  ctx,               \* every FunctionContext constructed so far
  functionContext_,  \* ESTreeIRGen::functionContext_ (index into ctx)
  funcs,             \* the IR functions of the module
  insertPt,          \* the Builder's insertion block <<function, block>>
  log                \* order in which the lowering events happened

vars == <<ast, phase, stack, ctx, functionContext_, funcs, insertPt, log>>

----------------------------------------------------------------------------
\* Names (Identifier / Value handles): <<text, number, owner>>.

NullName == <<"null", 0, 0>>
LiteralUndefined == <<"undefined", 0, 0>>
ThisName == <<"this", 0, 0>>
NameHint == <<"", 0, 0>>
FnName(n) == <<"f", n, 0>>
FnValue(f) == <<"fn", f, 0>>
BoolSet == {TRUE, FALSE}

IsValid(name) == name[1] # ""

\* FunctionContext::genAnonymousLabelName: "?anon_<counter>_<hint>".
genAnonymousLabelName(hint, counter, owner) == <<hint, counter, owner>>

----------------------------------------------------------------------------
\* The AST and the semantic info derived from it.

ParamKinds == {"id", "pat", "def", "defpat"}

\* Formal parameter lists: a rest element is syntactically last.
RECURSIVE PlainLists(_)
PlainLists(k) ==
  IF k = 0 THEN { << >> }
  ELSE LET S == PlainLists(k - 1)
       IN  S \cup { Append(s, x) : s \in { t \in S : Len(t) = k - 1 }, x \in ParamKinds }

ParamLists ==
  PlainLists(MaxParams)
    \cup { Append(s, "rest") : s \in PlainLists(MaxParams - 1) }

FnNode(parent, kind, syntax, where, named, lazy, params, nvars) ==
  [parent |-> parent, kind |-> kind, syntax |-> syntax, where |-> where,
   named |-> named, lazy |-> lazy, params |-> params, nvars |-> nvars]

\* The forms a nested function takes in the nesting programs.
Forms ==
  { [kind |-> "plain", syntax |-> "decl",  where |-> "closures", named |-> TRUE,  lazy |-> FALSE],
    [kind |-> "gen",   syntax |-> "decl",  where |-> "closures", named |-> TRUE,  lazy |-> FALSE],
    [kind |-> "plain", syntax |-> "decl",  where |-> "closures", named |-> TRUE,  lazy |-> TRUE],
    [kind |-> "plain", syntax |-> "expr",  where |-> "body",     named |-> TRUE,  lazy |-> FALSE],
    [kind |-> "gen",   syntax |-> "expr",  where |-> "body",     named |-> FALSE, lazy |-> TRUE],
    [kind |-> "arrow", syntax |-> "arrow", where |-> "body",     named |-> FALSE, lazy |-> FALSE],
    [kind |-> "arrow", syntax |-> "arrow", where |-> "init",     named |-> FALSE, lazy |-> FALSE] }

\* Parent maps of a tree on 1..n rooted at node 1 (a parent precedes its child).
Parents(n) == { p \in [1..n -> 0..n] : p[1] = 0 /\ \A i \in 2..n : p[i] \in 1..(i - 1) }

HasInitChild(p, f, i) == \E c \in DOMAIN p : p[c] = i /\ f[c].where = "init"

WellFormedTree(n, p, f) ==
  /\ f[1].where # "init"
  /\ \A c \in 2..n : ~f[p[c]].lazy

\* Programs that exercise nesting: every mix of forms on every tree shape;
\* a function has a default-valued formal exactly when an arrow sits in it.
NestingProgramsOfSize(n) ==
  { [nodes |-> [i \in 1..n |->
                  FnNode(t[1][i], t[2][i].kind, t[2][i].syntax, t[2][i].where,
                         t[2][i].named, t[2][i].lazy,
                         IF HasInitChild(t[1], t[2], i) THEN << "def" >> ELSE << >>, 0)],
     argsUsed |-> a, bodyRef |-> FALSE] :
      t \in { u \in Parents(n) \X [1..n -> Forms] : WellFormedTree(n, u[1], u[2]) },
      a \in BoolSet }

NestingPrograms == UNION { NestingProgramsOfSize(n) : n \in 1..MaxNodes }

\* Programs that exercise the formals: one function of each kind with every
\* formal parameter list, bare, with hoisted declarations, or with a first
\* statement that refers to its own block.
RootForms == { f \in Forms : f.syntax # "expr" /\ f.where # "init" }

Decorations == { "bare", "hoisted", "referenced" }

FormalsPrograms ==
  { [nodes |->
       IF d = "hoisted" /\ ~f.lazy
         THEN << FnNode(0, f.kind, f.syntax, f.where, f.named, f.lazy, ps, 1),
                 FnNode(1, "plain", "decl", "closures", TRUE, FALSE, << >>, 0),
                 FnNode(1, "gen", "decl", "closures", TRUE, FALSE, << >>, 0) >>
         ELSE << FnNode(0, f.kind, f.syntax, f.where, f.named, f.lazy, ps,
                        IF d = "hoisted" THEN 1 ELSE 0) >>,
     argsUsed |-> FALSE, bodyRef |-> (d = "referenced")] :
      f \in RootForms, ps \in ParamLists, d \in Decorations }

Programs == NestingPrograms \cup FormalsPrograms

Node(n) == ast.nodes[n]
NumNodes == Len(ast.nodes)

\* The members of a finite set of numbers in increasing order.
Sorted(S) == [i \in 1..Cardinality(S) |->
                CHOOSE x \in S : Cardinality({ y \in S : y < x }) = i - 1]

ChildrenAt(p, w) ==
  Sorted({ c \in 2..NumNodes : Node(c).parent = p /\ Node(c).where = w })

\* sem::FunctionInfo of node n.
closures(n) == ChildrenAt(n, "closures")
bodyFunctions(n) == ChildrenAt(n, "body")
initFunctions(n) == ChildrenAt(n, "init")

\* The nearest enclosing function of node n that is not an arrow (0: the
\* function the program is lowered in).
RECURSIVE NonArrowAncestor(_)
NonArrowAncestor(n) ==
  LET p == Node(n).parent
  IN  IF p = 0 THEN 0
      ELSE IF Node(p).kind # "arrow" THEN p
      ELSE NonArrowAncestor(p)

containsArrowFunctions(n) ==
  \E c \in 1..NumNodes : Node(c).kind = "arrow" /\ NonArrowAncestor(c) = n

containsArrowFunctionsUsingArguments(n) ==
  containsArrowFunctions(n) /\ ast.argsUsed

IsAssignmentPattern(kind) == kind \in {"def", "defpat"}
IsIdentifierTarget(kind) == kind \in {"id", "def"}

\* sem::FunctionInfo::paramNames: the identifiers the formals bind.
paramNames(ps) ==
  [i \in 1..Len(ps) |-> IF IsIdentifierTarget(ps[i]) \/ ps[i] = "rest"
                          THEN <<"p", i, 0>> ELSE <<"q", i, 0>>]

----------------------------------------------------------------------------
\* The IR under construction (IRBuilder).

Inst(op, v, d, t) == [op |-> op, v |-> v, d |-> d, t |-> t]
NoTargets == << >>
EmptyBlock == [live |-> TRUE, insts |-> << >>]

\* Builder.createFunction / createGeneratorFunction / createGeneratorInnerFunction.
createFunction(node, role, name, alias) ==
  [node |-> node, role |-> role, name |-> name, lazyClosureAlias |-> alias,
   params |-> << >>, variables |-> << >>, blocks |-> << >>,
   lazySource |-> FALSE, done |-> FALSE]

createParameter(fs, f, name) == [fs EXCEPT ![f].params = Append(@, name)]
createVariable(fs, f, name) == [fs EXCEPT ![f].variables = Append(@, name)]
createBasicBlock(fs, f) == [fs EXCEPT ![f].blocks = Append(@, EmptyBlock)]
Emit(fs, pt, insts) == [fs EXCEPT ![pt[1]].blocks[pt[2]].insts = @ \o insts]

Range(s) == { s[i] : i \in DOMAIN s }

\* The instructions of function fn, as <<block, index>> positions.
Positions(fn) ==
  UNION { { <<b, i>> : i \in DOMAIN fn.blocks[b].insts } : b \in DOMAIN fn.blocks }

InstAt(fn, pos) == fn.blocks[pos[1]].insts[pos[2]]

\* Every use of a basic block as an operand: <<position, operand index>>.
BlockUses(fn) ==
  UNION { { <<pos, k>> : k \in DOMAIN InstAt(fn, pos).t } : pos \in Positions(fn) }

\* BasicBlock::getNumUsers: one user per operand that names the block.
getNumUsers(fn, b) ==
  Cardinality({ u \in BlockUses(fn) : InstAt(fn, u[1]).t[u[2]] = b })

hasUser(fn, b, pos) == b \in Range(InstAt(fn, pos).t)

----------------------------------------------------------------------------
\* Activation frames.

Frame(proc, pc, node, name, alias, inner, entryCtx) ==
  [proc |-> proc, pc |-> pc, node |-> node, name |-> name, alias |-> alias,
   inner |-> inner, entryCtx |-> entryCtx,
   fn |-> 0, innerFn |-> 0, blk |-> 0, fromBlk |-> 0,
   i |-> 1, j |-> 1, paramIndex |-> <<0, 0>>, ret |-> 0]

Top == stack[Len(stack)]
At(proc, pc) == phase = "running" /\ stack # << >> /\ Top.proc = proc /\ Top.pc = pc

Call(caller, callee) == Append([stack EXCEPT ![Len(stack)] = caller], callee)
Goto(frame) == [stack EXCEPT ![Len(stack)] = frame]
Return(value) ==
  LET s == SubSeq(stack, 1, Len(stack) - 1)
  IN  IF s = << >> THEN s ELSE [s EXCEPT ![Len(s)].ret = value]
PhaseAfter(s) == IF s = << >> THEN "done" ELSE "running"

curFunction == ctx[functionContext_]

Event(e, f, g, n) == [e |-> e, f |-> f, g |-> g, n |-> n]

----------------------------------------------------------------------------
\* FunctionContext.

RootCtx == 1
RootFn == 1

\* FunctionContext::FunctionContext.
FunctionContext(function, node) ==
  [function |-> function, node |-> node,
   oldContext_ |-> functionContext_,
   builderSaveState_ |-> insertPt,
   capturedThis |-> NullName,
   capturedNewTarget |-> LiteralUndefined,
   capturedArguments |-> NullName,
   entryTerminator |-> <<0, 0>>,
   anonymousLabelCounter |-> 0,
   live |-> TRUE]

\* A destructor that leaves functionContext_ as it is.
RestoredContextKept(c) == c

\* FunctionContext::~FunctionContext: the context current after destruction.
RestoredContext(c) == ctx[c].oldContext_

\* The Builder insertion point that builderSaveState_ restores.
RestoredInsertPt(c) == ctx[c].builderSaveState_

Destroyed(cs, c) == [cs EXCEPT ![c].live = FALSE]

----------------------------------------------------------------------------
\* Capture state, parameters, epilogue: the straight-line helpers.

\* ESTreeIRGen::initCaptureStateInES5Function, for context c emitting at pt.
initCaptureStateInES5Function(cs, fs, c, pt) ==
  LET f == cs[c].function
      k == cs[c].anonymousLabelCounter
      usesArgs == containsArrowFunctionsUsingArguments(cs[c].node)
      this == genAnonymousLabelName("?anon_this", k, f)
      newTarget == genAnonymousLabelName("?anon_new.target", k + 1, f)
      arguments == genAnonymousLabelName("?anon_arguments", k + 2, f)
      fs1 == Emit(createVariable(createVariable(fs, f, this), f, newTarget), pt,
                  << Inst("StoreFrame", ThisName, this, NoTargets),
                     Inst("GetNewTarget", NullName, NullName, NoTargets),
                     Inst("StoreFrame", <<"new.target", 0, 0>>, newTarget, NoTargets) >>)
      fs2 == Emit(createVariable(fs1, f, arguments), pt,
                  << Inst("CreateArguments", NullName, NullName, NoTargets),
                     Inst("StoreFrame", <<"arguments", 0, 0>>, arguments, NoTargets) >>)
  IN  IF ~containsArrowFunctions(cs[c].node)
        THEN [ctx |-> cs, funcs |-> fs]
        ELSE [ctx |-> [cs EXCEPT ![c].capturedThis = this,
                                 ![c].capturedNewTarget = newTarget,
                                 ![c].capturedArguments =
                                    IF usesArgs THEN arguments ELSE @,
                                 ![c].anonymousLabelCounter =
                                    IF usesArgs THEN k + 3 ELSE k + 2],
              funcs |-> IF usesArgs THEN fs2 ELSE fs1]

\* genArrowFunctionExpression: the captures an arrow context takes over.
PropagatedCaptures(cs, c) ==
  LET prev == cs[cs[c].oldContext_]
  IN  [cs EXCEPT ![c].capturedThis = prev.capturedThis,
                 ![c].capturedNewTarget = prev.capturedNewTarget,
                 ![c].capturedArguments = prev.capturedArguments]

\* A counter that starts at 0, so that the first formal counts as 1.
InitialParamIndexZero == <<0, 0>>

\* emitParameters: the counter before the first formal, uint32_t{0} - 1.
Uint32Dec(x) ==
  IF x[2] > 0 THEN <<x[1], x[2] - 1>> ELSE <<(x[1] - 1) % HalfWord, HalfWord - 1>>

Uint32Inc(x) ==
  IF x[2] < HalfWord - 1 THEN <<x[1], x[2] + 1>> ELSE <<(x[1] + 1) % HalfWord, 0>>

Uint32Value(x) == x[1] * HalfWord + x[2]

InitialParamIndex == Uint32Dec(<<0, 0>>)

\* Builder.getLiteralNumber(paramIndex).
LiteralNumber(x) == <<"#", Uint32Value(x), 0>>

\* A loop that treats the rest element like the other formals.
CreatesFormalParamAlways(kind) == TRUE

\* emitParameters: whether the formal of this kind gets an IR parameter.
CreatesFormalParam(kind) == kind # "rest"

\* emitParameters: the name of the IR parameter of the i-th formal.
FormalParamName(kind, i, counter, f) ==
  IF IsIdentifierTarget(kind)
    THEN <<"p", i, 0>>
    ELSE genAnonymousLabelName("?anon_param", counter, f)

\* createLRef(param).emitStore(value): the binding of one formal.
BindInst(kind, i, value) ==
  IF IsIdentifierTarget(kind) \/ kind = "rest"
    THEN Inst("StoreFrame", value, <<"p", i, 0>>, NoTargets)
    ELSE Inst("Destructure", value, <<"q", i, 0>>, NoTargets)

\* genES5Function, lazy body: the parameter the stub gets for formal i.
\* cast<IdentifierNode> of a node of another kind reads a name that is not
\* there.
StubParamName(kind, i) ==
  IF kind = "id" THEN <<"p", i, 0>> ELSE <<"?garbage", i, 0>>

StubParams(ps) == << ThisName >> \o [i \in 1..Len(ps) |-> StubParamName(ps[i], i)]

\* A merge that does not look at the users of nextBlock.
CanMergeAlways(fn, term) == TRUE

\* emitFunctionEpilogue: whether entry and nextBlock are merged.
CanMerge(fn, term) ==
  LET nextBlock == InstAt(fn, term).t[1]
  IN  /\ getNumUsers(fn, nextBlock) = 1
      /\ hasUser(fn, nextBlock, term)

\* emitFunctionEpilogue: the function after the return and the merge.
emitFunctionEpilogue(fs, c, pt, returnValue) ==
  LET f == ctx[c].function
      term == ctx[c].entryTerminator
      fs1 == Emit(fs, pt, << Inst("Return", returnValue, NullName, NoTargets) >>)
      fn == fs1[f]
      nextBlock == InstAt(fn, term).t[1]
      entryInsts == fn.blocks[term[1]].insts
      merged == SubSeq(entryInsts, 1, term[2] - 1)
                  \o fn.blocks[nextBlock].insts
                  \o SubSeq(entryInsts, term[2] + 1, Len(entryInsts))
  IN  IF CanMerge(fn, term)
        THEN [fs1 EXCEPT ![f].blocks[term[1]].insts = merged,
                         ![f].blocks[nextBlock] = [live |-> FALSE, insts |-> << >>],
                         ![f].done = TRUE]
        ELSE [fs1 EXCEPT ![f].done = TRUE]

----------------------------------------------------------------------------
\* Initial state: the generator stands in the body of the function that
\* encloses node 1, whose context is current and whose captures were set up.

RootFunction ==
  LET base == createFunction(0, "root", <<"global", 0, 0>>, NullName)
  IN  [base EXCEPT !.params = << ThisName >>,
                   !.variables = IF ast.nodes[1].syntax = "decl"
                                   THEN << FnName(1) >> ELSE << >>,
                   !.blocks = << EmptyBlock >>]

RootContext ==
  [function |-> RootFn, node |-> 0, oldContext_ |-> 0,
   builderSaveState_ |-> <<0, 0>>,
   capturedThis |-> NullName, capturedNewTarget |-> LiteralUndefined,
   capturedArguments |-> NullName, entryTerminator |-> <<0, 0>>,
   anonymousLabelCounter |-> 0, live |-> TRUE]

Init ==
  /\ ast \in Programs
  /\ phase = "idle"
  /\ stack = << >>
  /\ LET st == initCaptureStateInES5Function(
                 << RootContext >>, << RootFunction >>, RootCtx, <<RootFn, 1>>)
     IN  /\ ctx = st.ctx
         /\ funcs = st.funcs
  /\ functionContext_ = RootCtx
  /\ insertPt = <<RootFn, 1>>
  /\ log = << >>

----------------------------------------------------------------------------
\* The callers of the entry points (statement and expression lowering).

CalleeOf(n) == IF Node(n).kind = "gen" THEN "genGeneratorFunction" ELSE "genES5Function"
CalleePc(n) == IF Node(n).kind = "gen" THEN "inner" ELSE "enter"

\* The frame of the entry point that lowers function node n.
EntryFrame(n) ==
  CASE Node(n).syntax = "decl" ->
         Frame("genFunctionDeclaration", "call", n, FnName(n), NullName, FALSE,
               functionContext_)
    [] Node(n).syntax = "expr" ->
         Frame("genFunctionExpression", "call", n, NameHint, NullName, FALSE,
               functionContext_)
    [] OTHER ->
         Frame("genArrowFunctionExpression", "enter", n, NameHint, NullName, FALSE,
               functionContext_)

\* The enclosing function's lowering reaches node 1.
Driver ==
  /\ phase = "idle"
  /\ phase' = "running"
  /\ stack' = << EntryFrame(1) >>
  /\ UNCHANGED <<ast, ctx, functionContext_, funcs, insertPt, log>>

\* genStatement(body): the first explicit statement of the body.
genStatement ==
  /\ At("genStatement", "stmt")
  /\ LET f == insertPt[1]
         b == insertPt[2]
         joined == Len(funcs[f].blocks) + 1
         plain == Emit(funcs, insertPt,
                       << Inst("Stmt", NullName, NullName, NoTargets) >>)
         \* a statement with control flow: its join block's phi names the
         \* block the statement started in
         branching ==
           Emit(createBasicBlock(
                  Emit(plain, insertPt,
                       << Inst("Branch", NullName, NullName, << joined >>) >>), f),
                <<f, joined>>,
                << Inst("Phi", NullName, NullName, << b >>) >>)
     IN  /\ funcs' = IF ast.bodyRef THEN branching ELSE plain
         /\ insertPt' = IF ast.bodyRef THEN <<f, joined>> ELSE insertPt
         /\ log' = Append(log, Event("stmt", f, 0, Top.node))
  /\ stack' = Goto([Top EXCEPT !.pc = "fns", !.i = 1])
  /\ UNCHANGED <<ast, phase, ctx, functionContext_>>

\* genStatement(body): the next function expression or arrow in the body.
genStatementFunction ==
  /\ At("genStatement", "fns")
  /\ Top.i <= Len(bodyFunctions(Top.node))
  /\ stack' = Call([Top EXCEPT !.i = @ + 1], EntryFrame(bodyFunctions(Top.node)[Top.i]))
  /\ UNCHANGED <<ast, phase, ctx, functionContext_, funcs, insertPt, log>>

genStatementEnd ==
  /\ At("genStatement", "fns")
  /\ Top.i > Len(bodyFunctions(Top.node))
  /\ stack' = Return(0)
  /\ phase' = PhaseAfter(stack')
  /\ UNCHANGED <<ast, ctx, functionContext_, funcs, insertPt, log>>

----------------------------------------------------------------------------
\* genFunctionDeclaration.

genFunctionDeclaration ==
  /\ At("genFunctionDeclaration", "call")
  \* assert(funcStorage && "function declaration variable should have been hoisted")
  /\ FnName(Top.node) \in Range(funcs[curFunction.function].variables)
  /\ stack' = Call([Top EXCEPT !.pc = "store"],
                   Frame(CalleeOf(Top.node), CalleePc(Top.node), Top.node,
                         FnName(Top.node), NullName, FALSE, functionContext_))
  /\ UNCHANGED <<ast, phase, ctx, functionContext_, funcs, insertPt, log>>

genFunctionDeclarationStore ==
  /\ At("genFunctionDeclaration", "store")
  /\ funcs' = Emit(funcs, insertPt,
                   << Inst("CreateFunction", FnValue(Top.ret), NullName, NoTargets),
                      Inst("StoreFrame", FnValue(Top.ret), FnName(Top.node), NoTargets) >>)
  /\ log' = Append(log, Event("closure", insertPt[1], Top.ret, Top.node))
  /\ stack' = Return(0)
  /\ phase' = PhaseAfter(stack')
  /\ UNCHANGED <<ast, ctx, functionContext_, insertPt>>

----------------------------------------------------------------------------
\* genFunctionExpression.

genFunctionExpression ==
  /\ At("genFunctionExpression", "call")
  /\ LET n == Top.node
         c == functionContext_
         f == curFunction.function
         closureName == genAnonymousLabelName(
                          "?anon_closure", curFunction.anonymousLabelCounter, f)
         tempClosureVar == IF Node(n).named THEN closureName ELSE NullName
         originalNameIden == IF Node(n).named THEN FnName(n) ELSE Top.name
     IN  /\ funcs' = IF Node(n).named THEN createVariable(funcs, f, closureName)
                     ELSE funcs
         /\ ctx' = IF Node(n).named
                     THEN [ctx EXCEPT ![c].anonymousLabelCounter = @ + 1]
                     ELSE ctx
         /\ stack' = Call([Top EXCEPT !.pc = "ret", !.alias = tempClosureVar],
                          Frame(CalleeOf(n), CalleePc(n), n, originalNameIden,
                                tempClosureVar, FALSE, functionContext_))
  /\ UNCHANGED <<ast, phase, functionContext_, insertPt, log>>

genFunctionExpressionClosure ==
  /\ At("genFunctionExpression", "ret")
  /\ funcs' = Emit(funcs, insertPt,
                   << Inst("CreateFunction", FnValue(Top.ret), NullName, NoTargets) >>
                   \o IF Top.alias # NullName
                        THEN << Inst("StoreFrame", FnValue(Top.ret), Top.alias, NoTargets) >>
                        ELSE << >>)
  /\ stack' = Return(Top.ret)
  /\ phase' = PhaseAfter(stack')
  /\ UNCHANGED <<ast, ctx, functionContext_, insertPt, log>>

----------------------------------------------------------------------------
\* genArrowFunctionExpression.

PrologueFrame(n, entry, c) ==
  [Frame("emitFunctionPrologue", "hoist", n, NullName, NullName, FALSE, c)
     EXCEPT !.blk = entry]

BodyFrame(n, c) == Frame("genStatement", "stmt", n, NullName, NullName, FALSE, c)

\* createFunction, FunctionContext newFunctionContext, emitFunctionPrologue(...).
genArrowFunctionExpression ==
  /\ At("genArrowFunctionExpression", "enter")
  /\ LET n == Top.node
         newFunc == Len(funcs) + 1
         c == Len(ctx) + 1
     IN  /\ funcs' = createBasicBlock(
                       Append(funcs, createFunction(n, "arrow", Top.name, NullName)),
                       newFunc)
         /\ ctx' = Append(ctx, FunctionContext(newFunc, n))
         /\ functionContext_' = c
         /\ log' = Append(log, Event("create", newFunc, 0, n))
         /\ stack' = Call([Top EXCEPT !.pc = "captures", !.fn = newFunc],
                          PrologueFrame(n, 1, c))
  /\ UNCHANGED <<ast, phase, insertPt>>

\* Propagate captured "this", "new.target" and "arguments"; genStatement(body).
genArrowFunctionExpressionCaptures ==
  /\ At("genArrowFunctionExpression", "captures")
  /\ ctx' = PropagatedCaptures(ctx, functionContext_)
  /\ stack' = Call([Top EXCEPT !.pc = "finish"], BodyFrame(Top.node, functionContext_))
  /\ UNCHANGED <<ast, phase, functionContext_, funcs, insertPt, log>>

\* emitFunctionEpilogue, ~FunctionContext, createCreateFunctionInst.
genArrowFunctionExpressionFinish ==
  /\ At("genArrowFunctionExpression", "finish")
  /\ LET c == functionContext_
         restored == RestoredInsertPt(c)
     IN  /\ funcs' = Emit(emitFunctionEpilogue(funcs, c, insertPt, LiteralUndefined),
                          restored,
                          << Inst("CreateFunction", FnValue(Top.fn), NullName, NoTargets) >>)
         /\ ctx' = Destroyed(ctx, c)
         /\ functionContext_' = RestoredContext(c)
         /\ insertPt' = restored
         /\ log' = Append(log, Event("done", Top.fn, 0, Top.node))
  /\ stack' = Return(Top.fn)
  /\ phase' = PhaseAfter(stack')
  /\ UNCHANGED <<ast>>

----------------------------------------------------------------------------
\* genES5Function.

\* genResumeGenerator(nullptr, isReturn, nextBB): the resume marker.
genResumeGenerator(fs, pt, isReturn, nextBB) ==
  Emit(fs, pt, << Inst("ResumeGenerator", isReturn, NullName, << nextBB >>) >>)

\* A start that allocates the stack slot before StartGeneratorInst.
GeneratorStartSlotFirst(fs, f, isReturn) ==
  genResumeGenerator(
    createBasicBlock(
      Emit(createBasicBlock(fs, f), <<f, 1>>,
           << Inst("AllocStack", NullName, isReturn, NoTargets),
              Inst("StartGenerator", NullName, NullName, NoTargets) >>), f),
    <<f, 1>>, isReturn, 2)

\* The start of a generator inner function: StartGeneratorInst, the isReturn
\* stack slot, the entry block, the resume marker.
GeneratorStart(fs, f, isReturn) ==
  LET initGenBB == 1
      entryPoint == 2
      fs1 == Emit(createBasicBlock(fs, f), <<f, initGenBB>>,
                  << Inst("StartGenerator", NullName, NullName, NoTargets),
                     Inst("AllocStack", NullName, isReturn, NoTargets) >>)
  IN  genResumeGenerator(createBasicBlock(fs1, f), <<f, initGenBB>>, isReturn, entryPoint)

RoleOf(frame) == IF frame.inner THEN "inner" ELSE "plain"

\* The body is lazy: the stub with its parameters, and the early return.
genES5FunctionLazy ==
  /\ At("genES5Function", "enter")
  /\ Node(Top.node).lazy
  /\ LET n == Top.node
         ps == Node(n).params
         newFunction == Len(funcs) + 1
         stub == [createFunction(n, RoleOf(Top), Top.name, Top.alias)
                    EXCEPT !.lazySource = TRUE, !.params = StubParams(ps)]
     IN  \* cast<ESTree::IdentifierNode>(&param) of a formal that is no
         \* identifier: the assertion fails, or the build without assertions
         \* goes on with whatever name it reads
         \E build \in IF \A i \in DOMAIN ps : ps[i] = "id"
                        THEN {"any"} ELSE {"asserts", "noasserts"} :
           IF build = "asserts"
             THEN /\ phase' = "aborted"
                  /\ UNCHANGED <<stack, funcs, log>>
             ELSE /\ funcs' = Append(funcs, stub)
                  /\ log' = Append(log, Event("stub", newFunction, 0, n))
                  /\ stack' = Return(newFunction)
                  /\ phase' = PhaseAfter(stack')
  /\ UNCHANGED <<ast, ctx, functionContext_, insertPt>>

\* createFunction, FunctionContext newFunctionContext, the generator markers,
\* emitFunctionPrologue(...).
genES5Function ==
  /\ At("genES5Function", "enter")
  /\ ~Node(Top.node).lazy
  /\ LET n == Top.node
         newFunction == Len(funcs) + 1
         c == Len(ctx) + 1
         created == Append(funcs, createFunction(n, RoleOf(Top), Top.name, Top.alias))
         isReturn == genAnonymousLabelName("?anon_isReturn", 0, newFunction)
     IN  /\ funcs' = IF Top.inner
                       THEN GeneratorStart(created, newFunction, isReturn)
                       ELSE createBasicBlock(created, newFunction)
         /\ ctx' = Append(ctx, [FunctionContext(newFunction, n) EXCEPT
                                  !.anonymousLabelCounter = IF Top.inner THEN 1 ELSE 0])
         /\ functionContext_' = c
         /\ log' = Append(log, Event("create", newFunction, 0, n))
         /\ stack' = Call([Top EXCEPT !.pc = "captures", !.fn = newFunction],
                          PrologueFrame(n, IF Top.inner THEN 2 ELSE 1, c))
  /\ UNCHANGED <<ast, phase, insertPt>>

\* initCaptureStateInES5Function(); genStatement(body).
genES5FunctionCaptures ==
  /\ At("genES5Function", "captures")
  /\ LET st == initCaptureStateInES5Function(ctx, funcs, functionContext_, insertPt)
     IN  /\ ctx' = st.ctx
         /\ funcs' = st.funcs
  /\ stack' = Call([Top EXCEPT !.pc = "finish"], BodyFrame(Top.node, functionContext_))
  /\ UNCHANGED <<ast, phase, functionContext_, insertPt, log>>

\* emitFunctionEpilogue; return curFunction()->function; ~FunctionContext.
genES5FunctionFinish ==
  /\ At("genES5Function", "finish")
  /\ LET c == functionContext_
     IN  /\ funcs' = emitFunctionEpilogue(funcs, c, insertPt, LiteralUndefined)
         /\ ctx' = Destroyed(ctx, c)
         /\ functionContext_' = RestoredContext(c)
         /\ insertPt' = RestoredInsertPt(c)
         /\ log' = Append(log, Event("done", curFunction.function, 0, Top.node))
         /\ stack' = Return(curFunction.function)
  /\ phase' = PhaseAfter(stack')
  /\ UNCHANGED <<ast>>

----------------------------------------------------------------------------
\* genGeneratorFunction.

\* The synthesized name of the inner function.
InnerName(originalName, counter) ==
  IF IsValid(originalName)
    THEN genAnonymousLabelName("?anon_f", counter, originalName[2])
    ELSE genAnonymousLabelName("?anon_", counter, 0)

\* createGeneratorFunction; genES5Function(<anonymous label>, ..., true).
genGeneratorFunction ==
  /\ At("genGeneratorFunction", "inner")
  /\ LET n == Top.node
         outerFn == Len(funcs) + 1
         c == functionContext_
     IN  /\ funcs' = Append(funcs, createFunction(n, "outer", Top.name, NullName))
         /\ ctx' = [ctx EXCEPT ![c].anonymousLabelCounter = @ + 1]
         /\ log' = Append(log, Event("create", outerFn, 0, n))
         /\ stack' = Call([Top EXCEPT !.pc = "outer", !.fn = outerFn],
                          Frame("genES5Function", "enter", n,
                                InnerName(Top.name, curFunction.anonymousLabelCounter),
                                Top.alias, TRUE, functionContext_))
  /\ UNCHANGED <<ast, phase, functionContext_, insertPt>>

\* FunctionContext outerFnContext; emitFunctionPrologue(functionNode, ...).
genGeneratorFunctionOuter ==
  /\ At("genGeneratorFunction", "outer")
  /\ LET c == Len(ctx) + 1
     IN  /\ funcs' = createBasicBlock(funcs, Top.fn)
         /\ ctx' = Append(ctx, FunctionContext(Top.fn, Top.node))
         /\ functionContext_' = c
         /\ stack' = Call([Top EXCEPT !.pc = "finish", !.innerFn = Top.ret],
                          PrologueFrame(Top.node, 1, c))
  /\ UNCHANGED <<ast, phase, insertPt, log>>

\* An outer function that wraps itself instead of the inner function.
OuterBodyOfOuter(innerFn) ==
  << Inst("CreateGenerator", FnValue(innerFn - 1), NullName, NoTargets) >>

\* The instructions the outer function gets after its prologue.
OuterBody(innerFn) ==
  << Inst("CreateGenerator", FnValue(innerFn), NullName, NoTargets) >>

\* The value the outer function returns.
OuterReturnValue(innerFn) == <<"gen", innerFn, 0>>

\* initCaptureStateInES5Function, createCreateGeneratorInst,
\* emitFunctionEpilogue(gen), ~FunctionContext, return outerFn.
genGeneratorFunctionFinish ==
  /\ At("genGeneratorFunction", "finish")
  /\ LET c == functionContext_
         st == initCaptureStateInES5Function(ctx, funcs, c, insertPt)
     IN  /\ funcs' = emitFunctionEpilogue(
                       Emit(st.funcs, insertPt, OuterBody(Top.innerFn)),
                       c, insertPt, OuterReturnValue(Top.innerFn))
         /\ ctx' = Destroyed(st.ctx, c)
         /\ functionContext_' = RestoredContext(c)
         /\ insertPt' = RestoredInsertPt(c)
         /\ log' = Append(log, Event("done", Top.fn, 0, Top.node))
  /\ stack' = Return(Top.fn)
  /\ phase' = PhaseAfter(stack')
  /\ UNCHANGED <<ast>>

----------------------------------------------------------------------------
\* emitFunctionPrologue.

VarName(j) == <<"v", j, 0>>

\* declareVariableOrGlobalProperty(newFunc, name) for each name: a variable
\* is created unless the function scope already holds one of that name.
RECURSIVE Declared(_, _, _)
Declared(fs, f, names) ==
  IF names = << >> THEN fs
  ELSE Declared(IF Head(names) \in Range(fs[f].variables)
                  THEN fs ELSE createVariable(fs, f, Head(names)),
                f, Tail(names))

\* The hoisted variables that were newly created, each initialized to undefined.
RECURSIVE VarInits(_, _)
VarInits(have, names) ==
  IF names = << >> THEN << >>
  ELSE IF Head(names) \in have
    THEN VarInits(have, Tail(names))
    ELSE << Inst("StoreFrame", LiteralUndefined, Head(names), NoTargets) >>
           \o VarInits(have \cup { Head(names) }, Tail(names))

\* setInsertionBlock(entry); the hoisted variables and function
\* declarations; emitParameters(funcNode).
emitFunctionPrologue ==
  /\ At("emitFunctionPrologue", "hoist")
  /\ LET newFunc == curFunction.function
         semInfo == curFunction.node
         varDecls == [j \in 1..Node(semInfo).nvars |-> VarName(j)]
         fds == [k \in 1..Len(closures(semInfo)) |-> FnName(closures(semInfo)[k])]
         entry == <<newFunc, Top.blk>>
         inits == VarInits(Range(funcs[newFunc].variables), varDecls)
     IN  /\ funcs' = Declared(Emit(Declared(funcs, newFunc, varDecls), entry, inits),
                              newFunc, fds)
         /\ insertPt' = entry
         /\ log' = log
                   \o [k \in 1..Len(inits) |-> Event("varInit", newFunc, 0, semInfo)]
                   \o [k \in 1..Len(fds) |->
                         Event("declare", newFunc, 0, closures(semInfo)[k])]
         /\ stack' = Call([Top EXCEPT !.pc = "closures", !.i = 1],
                          Frame("emitParameters", "begin", Top.node, NullName,
                                NullName, FALSE, functionContext_))
  /\ UNCHANGED <<ast, phase, ctx, functionContext_>>

\* A prologue that skips the hoisted function declarations.
ClosuresLeftNever(i, semInfo) == FALSE

\* for (auto funcDecl : semInfo->closures): whether the i-th is still to do.
ClosuresLeft(i, semInfo) == i <= Len(closures(semInfo))

\* for (auto funcDecl : semInfo->closures) genFunctionDeclaration(funcDecl);
emitFunctionPrologueClosure ==
  /\ At("emitFunctionPrologue", "closures")
  /\ ClosuresLeft(Top.i, curFunction.node)
  /\ stack' = Call([Top EXCEPT !.i = @ + 1],
                   EntryFrame(closures(curFunction.node)[Top.i]))
  /\ UNCHANGED <<ast, phase, ctx, functionContext_, funcs, insertPt, log>>

\* The block separated from the entry block, and the branch into it.
emitFunctionPrologueBranch ==
  /\ At("emitFunctionPrologue", "closures")
  /\ ~ClosuresLeft(Top.i, curFunction.node)
  /\ LET newFunc == curFunction.function
         nextBlock == Len(funcs[newFunc].blocks) + 1
         here == funcs[insertPt[1]].blocks[insertPt[2]]
     IN  /\ funcs' = Emit(createBasicBlock(funcs, newFunc), insertPt,
                          << Inst("Branch", NullName, NullName, << nextBlock >>) >>)
         /\ ctx' = [ctx EXCEPT ![functionContext_].entryTerminator =
                                  <<insertPt[2], Len(here.insts) + 1>>]
         /\ insertPt' = <<newFunc, nextBlock>>
         /\ log' = Append(log, Event("branch", newFunc, 0, curFunction.node))
  /\ stack' = Return(0)
  /\ phase' = PhaseAfter(stack')
  /\ UNCHANGED <<ast, functionContext_>>

----------------------------------------------------------------------------
\* emitParameters.

\* The "this" parameter and a variable for every parameter name.
emitParameters ==
  /\ At("emitParameters", "begin")
  /\ LET newFunc == curFunction.function
         names == paramNames(Node(Top.node).params)
     IN  /\ funcs' = [createParameter(funcs, newFunc, ThisName)
                        EXCEPT ![newFunc].variables = @ \o names]
         /\ log' = Append(log, Event("params", newFunc, 0, Top.node))
  /\ stack' = Goto([Top EXCEPT !.pc = "loop", !.i = 1,
                               !.paramIndex = InitialParamIndex])
  /\ UNCHANGED <<ast, phase, ctx, functionContext_, insertPt>>

\* emitOptionalInitialization(formalParam, init), init present: the test for
\* undefined and the blocks of the default value and of the store.
OptionalInitializationStart(fs, pt) ==
  LET f == pt[1]
      getDefault == Len(fs[f].blocks) + 1
      store == Len(fs[f].blocks) + 2
  IN  Emit(createBasicBlock(createBasicBlock(fs, f), f), pt,
           << Inst("CondBranch", NullName, NullName, << getDefault, store >>) >>)

\* emitOptionalInitialization: after the default value, the branch to the
\* store block and the phi of the two values.
OptionalInitializationEnd(fs, pt, fromBlk, store) ==
  Emit(Emit(fs, pt, << Inst("Branch", NullName, NullName, << store >>) >>),
       <<pt[1], store>>,
       << Inst("Phi", NullName, NullName, << fromBlk, pt[2] >>) >>)

\* One formal that is no rest element and has no initializer.
emitParametersFormal ==
  /\ At("emitParameters", "loop")
  /\ Top.i <= Len(Node(Top.node).params)
  /\ LET kind == Node(Top.node).params[Top.i]
         c == functionContext_
         newFunc == curFunction.function
         formalParamName == FormalParamName(kind, Top.i,
                                            curFunction.anonymousLabelCounter, newFunc)
     IN  /\ CreatesFormalParam(kind)
         /\ ~IsAssignmentPattern(kind)
         /\ funcs' = Emit(createParameter(funcs, newFunc, formalParamName), insertPt,
                          << BindInst(kind, Top.i, formalParamName) >>)
         /\ ctx' = IF IsIdentifierTarget(kind) THEN ctx
                   ELSE [ctx EXCEPT ![c].anonymousLabelCounter = @ + 1]
         /\ stack' = Goto([Top EXCEPT !.i = @ + 1,
                                      !.paramIndex = Uint32Inc(Top.paramIndex)])
  /\ UNCHANGED <<ast, phase, functionContext_, insertPt, log>>

\* One formal with an initializer: the parameter and the start of its
\* optional initialization.
emitParametersDefault ==
  /\ At("emitParameters", "loop")
  /\ Top.i <= Len(Node(Top.node).params)
  /\ LET kind == Node(Top.node).params[Top.i]
         c == functionContext_
         newFunc == curFunction.function
         formalParamName == FormalParamName(kind, Top.i,
                                            curFunction.anonymousLabelCounter, newFunc)
         getDefault == Len(funcs[newFunc].blocks) + 1
     IN  /\ CreatesFormalParam(kind)
         /\ IsAssignmentPattern(kind)
         /\ funcs' = OptionalInitializationStart(
                       createParameter(funcs, newFunc, formalParamName), insertPt)
         /\ ctx' = IF IsIdentifierTarget(kind) THEN ctx
                   ELSE [ctx EXCEPT ![c].anonymousLabelCounter = @ + 1]
         /\ insertPt' = <<newFunc, getDefault>>
         /\ stack' = Goto([Top EXCEPT !.pc = "init", !.j = 1,
                                      !.name = formalParamName,
                                      !.fromBlk = insertPt[2],
                                      !.blk = getDefault + 1,
                                      !.paramIndex = Uint32Inc(Top.paramIndex)])
  /\ UNCHANGED <<ast, phase, functionContext_, log>>

\* The arrows of the program sit in the first initializer of their function.
FirstDefault(ps) ==
  CHOOSE i \in DOMAIN ps :
    IsAssignmentPattern(ps[i]) /\ \A k \in 1..(i - 1) : ~IsAssignmentPattern(ps[k])

InitializerFunctions(n, i) ==
  IF i = FirstDefault(Node(n).params) THEN initFunctions(n) ELSE << >>

\* genExpression(init): the next arrow function of the initializer.
emitParametersInitializer ==
  /\ At("emitParameters", "init")
  /\ Top.j <= Len(InitializerFunctions(Top.node, Top.i))
  /\ stack' = Call([Top EXCEPT !.j = @ + 1],
                   EntryFrame(InitializerFunctions(Top.node, Top.i)[Top.j]))
  /\ UNCHANGED <<ast, phase, ctx, functionContext_, funcs, insertPt, log>>

\* The end of the optional initialization and the store into the formal's target.
emitParametersBind ==
  /\ At("emitParameters", "init")
  /\ Top.j > Len(InitializerFunctions(Top.node, Top.i))
  /\ LET kind == Node(Top.node).params[Top.i]
     IN  /\ funcs' = Emit(OptionalInitializationEnd(funcs, insertPt, Top.fromBlk, Top.blk),
                          <<insertPt[1], Top.blk>>,
                          << BindInst(kind, Top.i, Top.name) >>)
         /\ insertPt' = <<insertPt[1], Top.blk>>
  /\ stack' = Goto([Top EXCEPT !.pc = "loop", !.i = @ + 1])
  /\ UNCHANGED <<ast, phase, ctx, functionContext_, log>>

\* The rest element: copyRestArgs(paramIndex) stored into its target; break.
emitParametersRest ==
  /\ At("emitParameters", "loop")
  /\ Top.i <= Len(Node(Top.node).params)
  /\ ~CreatesFormalParam(Node(Top.node).params[Top.i])
  /\ LET paramIndex == Uint32Inc(Top.paramIndex)
     IN  funcs' = Emit(funcs, insertPt,
                       << Inst("CallCopyRestArgs", LiteralNumber(paramIndex),
                               NullName, NoTargets),
                          BindInst("rest", Top.i, <<"copyRestArgs", 0, 0>>) >>)
  /\ log' = Append(log, Event("paramsEnd", curFunction.function, 0, Top.node))
  /\ stack' = Return(0)
  /\ phase' = PhaseAfter(stack')
  /\ UNCHANGED <<ast, ctx, functionContext_, insertPt>>

\* No formal is left.
emitParametersEnd ==
  /\ At("emitParameters", "loop")
  /\ Top.i > Len(Node(Top.node).params)
  /\ log' = Append(log, Event("paramsEnd", curFunction.function, 0, Top.node))
  /\ stack' = Return(0)
  /\ phase' = PhaseAfter(stack')
  /\ UNCHANGED <<ast, ctx, functionContext_, funcs, insertPt>>

----------------------------------------------------------------------------

Next ==
  \/ Driver
  \/ genStatement
  \/ genStatementFunction
  \/ genStatementEnd
  \/ genFunctionDeclaration
  \/ genFunctionDeclarationStore
  \/ genFunctionExpression
  \/ genFunctionExpressionClosure
  \/ genArrowFunctionExpression
  \/ genArrowFunctionExpressionCaptures
  \/ genArrowFunctionExpressionFinish
  \/ genES5FunctionLazy
  \/ genES5Function
  \/ genES5FunctionCaptures
  \/ genES5FunctionFinish
  \/ genGeneratorFunction
  \/ genGeneratorFunctionOuter
  \/ genGeneratorFunctionFinish
  \/ emitFunctionPrologue
  \/ emitFunctionPrologueClosure
  \/ emitFunctionPrologueBranch
  \/ emitParameters
  \/ emitParametersFormal
  \/ emitParametersDefault
  \/ emitParametersInitializer
  \/ emitParametersBind
  \/ emitParametersRest
  \/ emitParametersEnd

Spec == Init /\ [][Next]_vars

----------------------------------------------------------------------------
\* Vocabulary of the properties.

FnIds == DOMAIN funcs

\* The IR functions whose lowering ran to its end.
Lowered == { f \in FnIds : funcs[f].done }

\* The lazy stubs.
Stubs == { f \in FnIds : funcs[f].lazySource }

Formals(f) == Node(funcs[f].node).params

\* The prologue of f branches: a formal has a default value.
PrologueAddsEdges(f) == \E i \in DOMAIN Formals(f) : IsAssignmentPattern(Formals(f)[i])

InstsOf(f) == { InstAt(funcs[f], pos) : pos \in Positions(funcs[f]) }

PositionsOf(f, op) == { pos \in Positions(funcs[f]) : InstAt(funcs[f], pos).op = op }

\* The contexts from c outwards, following the previous-context links.
RECURSIVE ContextChain(_)
ContextChain(c) == IF c = 0 THEN << >> ELSE << c >> \o ContextChain(ctx[c].oldContext_)

\* The function nodes from n outwards in the AST (0: the enclosing function).
RECURSIVE NestingChain(_)
NestingChain(n) == IF n = 0 THEN << 0 >> ELSE << n >> \o NestingChain(Node(n).parent)

OwnsContext(frame) ==
  \/ frame.proc \in {"genES5Function", "genArrowFunctionExpression"}
       /\ frame.pc \in {"captures", "finish"}
  \/ frame.proc = "genGeneratorFunction" /\ frame.pc = "finish"

EventsOf(f, kinds) == SelectSeq(log, LAMBDA e : e.f = f /\ e.e \in kinds)

LogIndex(e, f) == { k \in DOMAIN log : log[k].e = e /\ log[k].f = f }

----------------------------------------------------------------------------
\* C1: function contexts are pushed and popped in strict pairs.  While the
\* generator runs, the current context is live, its chain of previous
\* contexts is exactly the chain of enclosing function nodes of the function
\* being lowered, no other context is live, a frame that constructed a
\* context sees its own function as current, and a frame that did not (among
\* them every caller to which an entry point has just returned, the lazy
\* early return included) sees the context that was current when it was
\* entered; at the end the enclosing function's context is current again.
ContextsMatchNesting ==
  LET chain == ContextChain(functionContext_)
  IN  /\ functionContext_ \in DOMAIN ctx
      /\ \A c \in DOMAIN ctx : ctx[c].live <=> c \in Range(chain)
      /\ [k \in DOMAIN chain |-> ctx[chain[k]].node] = NestingChain(curFunction.node)
      /\ phase \in {"idle", "done"} => functionContext_ = RootCtx
      /\ phase = "running" =>
           IF OwnsContext(Top)
             THEN /\ curFunction.function = Top.fn
                  /\ curFunction.node = Top.node
                  /\ curFunction.oldContext_ = Top.entryCtx
             ELSE functionContext_ = Top.entryCtx

\* A function is lowered two levels below the enclosing function, and an
\* entry point has returned to its caller inside a function being lowered.
ContextsMatchNestingWitness ==
  /\ phase = "running"
  /\ Len(ContextChain(functionContext_)) = 2
  /\ Top.proc \in {"genFunctionDeclaration", "genFunctionExpression"}
  /\ Top.pc \in {"store", "ret"}
  /\ \E f \in Stubs \cup Lowered : funcs[f].node = Top.node

----------------------------------------------------------------------------
\* C2 (as stated): every fully lowered function has as many formal
\* parameters after "this" as its node declares formals.
ParamCountIsDeclaredCount ==
  \A f \in Lowered : Len(funcs[f].params) - 1 = Len(Formals(f))

NonRestCount(ps) == Cardinality({ i \in DOMAIN ps : ps[i] # "rest" })

\* C2 (amended): every fully lowered function has as many formal parameters
\* after "this" as its node declares formals that are not a rest element.
ParamCountIsNonRestCount ==
  \A f \in Lowered :
    /\ funcs[f].params[1] = ThisName
    /\ Len(funcs[f].params) - 1 = NonRestCount(Formals(f))

\* A function with a destructuring, a default-valued and a rest formal is
\* fully lowered.
ParamCountWitness ==
  \E f \in Lowered :
    /\ {"rest", "def", "pat"} \subseteq Range(Formals(f))
    /\ Len(funcs[f].params) = 3

----------------------------------------------------------------------------
\* C3 (as stated): every live arrow context holds the capture references of
\* the context of the nearest enclosing function that is not an arrow.
RECURSIVE NonArrowContext(_)
NonArrowContext(c) ==
  IF ctx[c].node = 0 \/ Node(ctx[c].node).kind # "arrow"
    THEN c ELSE NonArrowContext(ctx[c].oldContext_)

Captures(c) == << ctx[c].capturedThis, ctx[c].capturedNewTarget, ctx[c].capturedArguments >>

ArrowSharesCaptures ==
  \A c \in DOMAIN ctx :
    (ctx[c].live /\ ctx[c].node # 0 /\ Node(ctx[c].node).kind = "arrow")
      => Captures(c) = Captures(NonArrowContext(c))

----------------------------------------------------------------------------
\* C4: every lowering of a generator node makes two IR functions, the outer
\* one under the original name and the inner one under a synthesized name;
\* the outer function holds exactly one CreateGenerator, which names that
\* inner function, is followed at once by the return of its result, and no
\* statement is lowered into the outer function.
OriginalName(n) == IF Node(n).named THEN FnName(n) ELSE NameHint

GeneratorSplit ==
  \A f \in Lowered :
    funcs[f].role = "outer" =>
      LET cg == PositionsOf(f, "CreateGenerator")
      IN  /\ Cardinality(cg) = 1
          /\ \A pos \in cg :
               LET inner == InstAt(funcs[f], pos).v[2]
                   next == <<pos[1], pos[2] + 1>>
               IN  /\ InstAt(funcs[f], pos).v = FnValue(inner)
                   /\ inner = f + 1
                   /\ funcs[inner].role = "inner"
                   /\ funcs[inner].node = funcs[f].node
                   /\ funcs[inner].name[1] \in {"?anon_f", "?anon_"}
                   /\ funcs[inner].name # funcs[f].name
                   /\ funcs[f].name = OriginalName(funcs[f].node)
                   /\ next \in Positions(funcs[f])
                   /\ InstAt(funcs[f], next) =
                        Inst("Return", <<"gen", inner, 0>>, NullName, NoTargets)
                   /\ PositionsOf(f, "Return") = { next }
                   /\ PositionsOf(f, "Stmt") = { }
                   /\ \A g \in Lowered :
                        (funcs[g].role = "outer" /\ g # f) =>
                          \A q \in PositionsOf(g, "CreateGenerator") :
                            InstAt(funcs[g], q).v # FnValue(inner)

\* A generator with formals and hoisted declarations is fully lowered.
GeneratorSplitWitness ==
  \E f \in Lowered :
    /\ funcs[f].role = "outer"
    /\ funcs[f + 1].done
    /\ Len(funcs[f].params) > 1
    /\ closures(funcs[f].node) # << >>

----------------------------------------------------------------------------
\* C5 (as stated): in every fully lowered generator inner function the first
\* instruction of the first block is the begin-generator marker and the
\* instruction right after it is the resume marker.
InnerFns == { f \in Lowered : funcs[f].role = "inner" }

FirstBlock(f) == funcs[f].blocks[1].insts

ResumeRightAfterStart ==
  \A f \in InnerFns :
    /\ Len(FirstBlock(f)) >= 2
    /\ FirstBlock(f)[1].op = "StartGenerator"
    /\ FirstBlock(f)[2].op = "ResumeGenerator"

\* C5 (amended): in every fully lowered generator inner function the first
\* block holds exactly the begin-generator marker, the allocation of the
\* is-return stack slot and the resume marker, in this order; the resume
\* marker takes that slot and the entry block, which is the block the
\* prologue was emitted into; every other instruction lies in a later block.
GeneratorMarkersFirst ==
  \A f \in InnerFns :
    LET first == FirstBlock(f)
    IN  /\ funcs[f].blocks[1].live
        /\ Len(first) = 3
        /\ first[1].op = "StartGenerator"
        /\ first[2].op = "AllocStack"
        /\ first[3].op = "ResumeGenerator"
        /\ first[3].v = first[2].d
        /\ first[3].v[1] = "?anon_isReturn"
        /\ Len(first[3].t) = 1
        /\ LET entryPoint == first[3].t[1]
           IN  /\ entryPoint # 1
               /\ funcs[f].blocks[entryPoint].live
               /\ funcs[f].blocks[entryPoint].insts # << >>
               /\ \A c \in DOMAIN ctx :
                    (ctx[c].function = f /\ ~PrologueAddsEdges(f)) =>
                      ctx[c].entryTerminator[1] = entryPoint

\* A generator inner function with formals and hoisted declarations is
\* fully lowered.
GeneratorMarkersWitness ==
  \E f \in InnerFns :
    /\ Formals(f) # << >>
    /\ Node(funcs[f].node).nvars > 0
    /\ closures(funcs[f].node) # << >>

----------------------------------------------------------------------------
\* C6: in every function the prologue events happen in this order: the
\* undefined-initializations of the hoisted vars, the pre-declarations of the
\* nested function declarations, the parameter binding, then per nested
\* declaration (in declaration order) its complete lowering followed at once
\* by the store of its closure, then the separating branch; the first
\* explicit statement is lowered after all of them, and by then each has
\* happened for every var and declaration of the semantic info.
PrologueKinds == {"varInit", "declare", "params", "paramsEnd", "closure", "branch", "stmt"}

Rank(e) ==
  CASE e = "varInit" -> 1
    [] e = "declare" -> 2
    [] e = "params" -> 3
    [] e = "paramsEnd" -> 4
    [] e = "closure" -> 5
    [] e = "branch" -> 6
    [] e = "stmt" -> 7

NodesOf(events) == [k \in DOMAIN events |-> events[k].n]

PrologueOrder ==
  \A f \in FnIds \ { RootFn } :
    LET n == funcs[f].node
        E == EventsOf(f, PrologueKinds)
    IN  /\ \A k \in 1..(Len(E) - 1) : Rank(E[k].e) <= Rank(E[k + 1].e)
        /\ (EventsOf(f, {"stmt"}) # << >> \/ funcs[f].done) =>
             /\ Len(EventsOf(f, {"varInit"})) = Node(n).nvars
             /\ NodesOf(EventsOf(f, {"declare"})) = closures(n)
             /\ NodesOf(EventsOf(f, {"closure"})) = closures(n)
             /\ Len(EventsOf(f, {"params"})) = 1
             /\ Len(EventsOf(f, {"paramsEnd"})) = 1
             /\ Len(EventsOf(f, {"branch"})) = 1
        /\ \A k \in LogIndex("closure", f) :
             LET g == log[k].g
             IN  /\ k > 1
                 /\ log[k - 1].f = g
                 /\ log[k - 1].e \in {"done", "stub"}
                 /\ \A j \in DOMAIN log :
                      (log[j].f = g /\ log[j].e \in {"create", "stub"}) =>
                        \A q \in LogIndex("paramsEnd", f) : q < j

\* The first statement of a function with a hoisted var, formals and two
\* nested function declarations has been lowered.
PrologueOrderWitness ==
  \E f \in FnIds \ { RootFn } :
    /\ EventsOf(f, {"stmt"}) # << >>
    /\ Node(funcs[f].node).nvars > 0
    /\ Len(closures(funcs[f].node)) = 2
    /\ Formals(f) # << >>

----------------------------------------------------------------------------
\* C7: a lazy stub has "this" and one parameter per declared formal, no
\* basic block and so no instruction, no function context of its own, the
\* lazy record, and as many parameters as the full lowering of the same
\* formals produces.
RECURSIVE FullFormals(_, _)
FullFormals(ps, i) ==
  IF i > Len(ps) \/ ~CreatesFormalParam(ps[i]) THEN << >>
  ELSE << i >> \o FullFormals(ps, i + 1)

StubMatchesFullLowering ==
  \A s \in Stubs :
    /\ funcs[s].params[1] = ThisName
    /\ Len(funcs[s].params) = 1 + Len(Formals(s))
    /\ funcs[s].blocks = << >>
    /\ \A c \in DOMAIN ctx : ctx[c].function # s
    /\ Len(funcs[s].params) = 1 + Len(FullFormals(Formals(s), 1))

----------------------------------------------------------------------------
\* C8: a function whose formals hold a rest element at 0-based position k
\* has exactly one copyRestArgs call, its index is k, the next instruction
\* stores its result into the rest target, the function has k formal
\* parameters after "this", and the store is the last of the bindings of
\* the formals.
IsBinding(inst) == inst.op \in {"StoreFrame", "Destructure"} /\ inst.d[1] \in {"p", "q"}

RestIndex ==
  \A f \in Lowered :
    LET ps == Formals(f)
        calls == PositionsOf(f, "CallCopyRestArgs")
    IN  IF "rest" \in Range(ps)
          THEN LET k == Len(ps) - 1
               IN  /\ Cardinality(calls) = 1
                   /\ \A pos \in calls :
                        LET insts == funcs[f].blocks[pos[1]].insts
                        IN  /\ InstAt(funcs[f], pos).v = <<"#", k, 0>>
                            /\ pos[2] < Len(insts)
                            /\ insts[pos[2] + 1] =
                                 Inst("StoreFrame", <<"copyRestArgs", 0, 0>>,
                                      <<"p", k + 1, 0>>, NoTargets)
                            /\ \A q \in Positions(funcs[f]) :
                                 (IsBinding(InstAt(funcs[f], q)) /\ q[1] = pos[1])
                                   => q[2] <= pos[2] + 1
                   /\ Len(funcs[f].params) - 1 = k
                   /\ Cardinality({ q \in Positions(funcs[f]) :
                                      IsBinding(InstAt(funcs[f], q)) }) = k + 1
          ELSE calls = { }

\* A function with the rest element at position 2 is fully lowered.
RestIndexWitness ==
  \E f \in Lowered : Len(Formals(f)) = 3 /\ Formals(f)[3] = "rest"

----------------------------------------------------------------------------
\* C9 (as stated): a fully lowered function whose prologue added nothing
\* but the separating branch is merged, and one whose prologue added control
\* edges (a default-valued formal) is not.
Merged(f) == \E b \in DOMAIN funcs[f].blocks : ~funcs[f].blocks[b].live

PrologueAddsNothing(f) ==
  LET n == funcs[f].node
  IN  Node(n).nvars = 0 /\ closures(n) = << >> /\ Formals(f) = << >>

MergeFollowsPrologue ==
  \A f \in Lowered :
    /\ PrologueAddsNothing(f) => Merged(f)
    /\ PrologueAddsEdges(f) => ~Merged(f)

\* C9 (amended): a fully lowered function is merged exactly when lowering
\* its body added no reference to the block after the separating branch,
\* whatever its prologue added.  Merged: that block is deleted, no
\* instruction names it, and the first statement and the return lie in one
\* block in this order (in the entry block, when the prologue added no
\* control edge).  Not merged: no block is deleted and a branch leads to the
\* block that begins the body.
BodyRefersToFirstBlock(f) == ast.bodyRef /\ funcs[f].role # "outer"

TargetsOf(f) == UNION { Range(i.t) : i \in InstsOf(f) }

EntryBlockOf(f) == IF funcs[f].role = "inner" THEN 2 ELSE 1

MergeFollowsUsers ==
  \A f \in Lowered :
    LET dead == { b \in DOMAIN funcs[f].blocks : ~funcs[f].blocks[b].live }
        stmts == PositionsOf(f, "Stmt")
        rets == PositionsOf(f, "Return")
    IN  IF BodyRefersToFirstBlock(f)
          THEN /\ dead = { }
               /\ \E pos \in PositionsOf(f, "Branch") :
                    \E q \in stmts :
                      /\ InstAt(funcs[f], pos).t = << q[1] >>
                      /\ pos[2] = Len(funcs[f].blocks[pos[1]].insts)
                      /\ pos[1] # q[1]
          ELSE /\ Cardinality(dead) = 1
               /\ dead \cap TargetsOf(f) = { }
               /\ Cardinality(rets) = 1
               /\ funcs[f].role # "outer" =>
                    /\ Cardinality(stmts) = 1
                    /\ \A q \in stmts : \A r \in rets : q[1] = r[1] /\ q[2] < r[2]
                    /\ ~PrologueAddsEdges(f) =>
                         \A q \in stmts : q[1] = EntryBlockOf(f)

\* A function with a default-valued formal is fully lowered and merged.
MergeWitness ==
  \E f \in Lowered : PrologueAddsEdges(f) /\ Merged(f) /\ funcs[f].role = "plain"

----------------------------------------------------------------------------
\* C10: once the program is lowered, every nested function declaration was
\* lowered and its closure stored once per lowering of its enclosing source
\* function, and the formals of every function were bound once per lowering
\* of it.
Lowerings(n) ==
  IF n = 0 THEN 1
  ELSE Cardinality({ f \in FnIds : funcs[f].node = n /\ funcs[f].role # "inner" })

Count(e, n) == Cardinality({ k \in DOMAIN log : log[k].e = e /\ log[k].n = n })

NestedLoweredOnce ==
  phase = "done" =>
    \A n \in 1..NumNodes :
      /\ Node(n).where = "closures" =>
           /\ Lowerings(n) = Lowerings(Node(n).parent)
           /\ Count("closure", n) = Lowerings(Node(n).parent)
      /\ (~Node(n).lazy /\ Node(n).params # <<>>) =>
           Count("params", n) = Lowerings(n)

====
